---- MODULE Spec2Model ----
(***************************************************************************)
(* A model of leveldb::ThreadPool (src/util/threadpool.h).                 *)
(*                                                                         *)
(* The pool's worker threads run Task(); caller threads ("clients") call   *)
(* AddJob, WaitAll, JoinAll and the destructor.  Every access to shared    *)
(* state that the code performs without a lock that would order it with    *)
(* the other threads is a step of its own, so that the interleavings the   *)
(* code allows are the interleavings of the model.  A condition variable   *)
(* is the set of the threads blocked on it; wait(lock, pred) is the loop   *)
(* "while (!pred()) wait(lock)" of the C++ standard: the evaluation of the *)
(* predicate is one step, the atomic unlock-and-block of wait(lock) the    *)
(* next.                                                                   *)
(***************************************************************************)
EXTENDS Integers, Sequences, FiniteSets

\* Bounds of the model.
NumWorkers == 2   \* the largest threadcount given to the constructor
NumClients == 2   \* caller threads using the pool
MaxJobs == 2      \* jobs submitted over a run

Clients == 1..NumClients
Jobs == 1..MaxJobs

\* The lambda []{} that next_job hands out when bailing out; also the value
\* of a worker's res while it holds no job.
NoOp == 0

\* A mutex nobody holds.  Workers own a mutex as <<"w", id>>, clients as
\* <<"c", id>>.
Free == <<"free", 0>>
W(w) == <<"w", w>>
C(c) == <<"c", c>>

VARIABLES
  queue,              \* std::list<std::function<void()>> queue, as job ids
  jobs_left,          \* std::atomic_int jobs_left
  bailout,            \* std::atomic_bool bailout
  finished,           \* std::atomic_bool finished
  job_available_var,  \* the workers blocked on job_available_var
  wait_var,           \* the clients blocked on wait_var
  wait_mutex,         \* owner of wait_mutex
  queue_mutex,        \* owner of queue_mutex
  threads,            \* threads[w]: threads[w].joinable()
  wpc,                \* each worker's position in Task / next_job
  res,                \* each worker's local res (the job it dequeued)
  ran,                \* what a worker ran in the current turn of its loop
  cpc,                \* each client's position in the call it is making
  cop,                \* the call a client is making, or made last
  WaitForAll,         \* JoinAll's parameter, per caller
  x,                  \* JoinAll's loop position over threads, per caller
  accepted,           \* number of jobs AddJob has put in the queue
  popped,             \* popped[j]: times job j was taken off the queue
  executed,           \* executed[j]: times job j's packaged_task was run
  joiners,            \* joiners[w]: the callers that called threads[w].join()
  crashed,            \* the process was terminated (join on a joined thread)
  quiet,              \* quiet[c]: no AddJob ran since c began its wait/shutdown
  threadcount         \* the constructor's argument, kept in int threadcount

\* The arguments the constructor is called with.
ThreadCounts == -1..NumWorkers

\* The constructor, line 83: threads.resize(threadcount) throws
\* std::length_error when threadcount, converted to size_t, is above the
\* vector's max_size, which it is exactly when threadcount is negative.
ResizeThrows(n) == n < 0

\* The constructor returned: there is a pool.
Constructed == ~ResizeThrows(threadcount)

\* The constructor, lines 83-85: the threads of the pool, threads[0] to
\* threads[threadcount - 1] (none when the loop does not run).
Workers == 1..threadcount

\* Size, lines 98-100: the threadcount of a constructed pool, which is not
\* negative, so that its conversion to unsigned changes nothing.
Size == threadcount

pool == <<queue, jobs_left, bailout, finished, job_available_var, wait_var,
          wait_mutex, queue_mutex, threads>>
workerVars == <<wpc, res, ran>>
clientVars == <<cpc, cop, WaitForAll, x>>
history == <<accepted, popped, executed, joiners, crashed, quiet>>
vars == <<pool, workerVars, clientVars, history, threadcount>>

----------------------------------------------------------------------------
\* The constructor, called with any of the arguments: counters and flags
\* cleared, every thread started on Task.
Init ==
  /\ threadcount \in ThreadCounts
  /\ queue = <<>>
  /\ jobs_left = 0
  /\ bailout = FALSE
  /\ finished = FALSE
  /\ job_available_var = {}
  /\ wait_var = {}
  /\ wait_mutex = Free
  /\ queue_mutex = Free
  /\ threads = [w \in Workers |-> TRUE]
  /\ wpc = [w \in Workers |-> "t_while"]
  /\ res = [w \in Workers |-> NoOp]
  /\ ran = [w \in Workers |-> "none"]
  /\ cpc = [c \in Clients |-> "idle"]
  /\ cop = [c \in Clients |-> "none"]
  /\ WaitForAll = [c \in Clients |-> TRUE]
  /\ x = [c \in Clients |-> 1]
  /\ accepted = 0
  /\ popped = [j \in Jobs |-> 0]
  /\ executed = [j \in Jobs |-> 0]
  /\ joiners = [w \in Workers |-> {}]
  /\ crashed = FALSE
  /\ quiet = [c \in Clients |-> FALSE]

----------------------------------------------------------------------------
(* Worker threads: Task() and next_job().                                  *)

\* A plausible slip in Task: the loop is left without bailout being read.
TaskWhileNoTest(w) ==
  /\ wpc[w] = "t_while"
  /\ \/ wpc' = [wpc EXCEPT ![w] = "exited"]
     \/ wpc' = [wpc EXCEPT ![w] = "nj_lock"]
  /\ ran' = [ran EXCEPT ![w] = "none"]
  /\ UNCHANGED <<pool, res, clientVars, history>>

\* Task, line 42: while( !bailout ).  The thread ends when it reads bailout
\* set, and calls next_job otherwise; a turn of the loop begins or the loop
\* is left, and ran is cleared.
TaskWhile(w) ==
  /\ wpc[w] = "t_while"
  /\ wpc' = [wpc EXCEPT ![w] = IF bailout THEN "exited" ELSE "nj_lock"]
  /\ ran' = [ran EXCEPT ![w] = "none"]
  /\ UNCHANGED <<pool, res, clientVars, history>>

\* next_job, line 57: std::unique_lock job_lock( queue_mutex ).
NextJobLock(w) ==
  /\ UNCHANGED ran
  /\ wpc[w] = "nj_lock"
  /\ queue_mutex = Free
  /\ queue_mutex' = W(w)
  /\ wpc' = [wpc EXCEPT ![w] = "nj_pred"]
  /\ UNCHANGED <<queue, jobs_left, bailout, finished, job_available_var,
                 wait_var, wait_mutex, threads, res, clientVars, history>>

\* next_job, line 61: the predicate of job_available_var.wait.
JobAvailable == Len(queue) > 0 \/ bailout

\* next_job, line 61: one evaluation of the predicate, under queue_mutex.
\* When it is false the thread goes on to block.
NextJobPred(w) ==
  /\ wpc[w] = "nj_pred"
  /\ wpc' = [wpc EXCEPT ![w] = IF JobAvailable THEN "nj_get" ELSE "nj_block"]
  /\ UNCHANGED <<pool, res, ran, clientVars, history>>

\* next_job, line 61: wait(lock) releases queue_mutex and blocks the thread
\* on job_available_var, atomically.
NextJobBlock(w) ==
  /\ UNCHANGED ran
  /\ wpc[w] = "nj_block"
  /\ queue_mutex' = Free
  /\ job_available_var' = job_available_var \cup {w}
  /\ wpc' = [wpc EXCEPT ![w] = "nj_wait"]
  /\ UNCHANGED <<queue, jobs_left, bailout, finished, wait_var, wait_mutex,
                 threads, res, clientVars, history>>

\* next_job, line 61: a notified thread takes queue_mutex again and
\* evaluates the predicate again.
NextJobWake(w) ==
  /\ UNCHANGED ran
  /\ wpc[w] = "nj_wait"
  /\ w \notin job_available_var
  /\ queue_mutex = Free
  /\ queue_mutex' = W(w)
  /\ wpc' = [wpc EXCEPT ![w] = "nj_pred"]
  /\ UNCHANGED <<queue, jobs_left, bailout, finished, job_available_var,
                 wait_var, wait_mutex, threads, res, clientVars, history>>

\* std::condition_variable::wait may return without a notification.
NextJobSpuriousWake(w) ==
  /\ wpc[w] = "nj_wait"
  /\ w \in job_available_var
  /\ job_available_var' = job_available_var \ {w}
  /\ UNCHANGED <<queue, jobs_left, bailout, finished, wait_var, wait_mutex,
                 queue_mutex, threads, workerVars, clientVars, history>>

\* A plausible slip in next_job: the head is read and never popped.
NextJobGetNoPop(w) ==
  /\ UNCHANGED ran
  /\ wpc[w] = "nj_get"
  /\ IF ~bailout
       THEN /\ res' = [res EXCEPT ![w] = Head(queue)]
            /\ popped' = [popped EXCEPT ![Head(queue)] = @ + 1]
            /\ UNCHANGED <<queue, jobs_left>>
       ELSE /\ res' = [res EXCEPT ![w] = NoOp]
            /\ jobs_left' = jobs_left + 1
            /\ UNCHANGED <<queue, popped>>
  /\ queue_mutex' = Free
  /\ wpc' = [wpc EXCEPT ![w] = "t_run"]
  /\ UNCHANGED <<bailout, finished, job_available_var, wait_var, wait_mutex,
                 threads, clientVars, accepted, executed, joiners, crashed,
                 quiet>>

\* A plausible slip in next_job: the []{} handed out on bailout is not
\* counted in jobs_left.
NextJobGetNoInject(w) ==
  /\ UNCHANGED ran
  /\ wpc[w] = "nj_get"
  /\ IF ~bailout
       THEN /\ res' = [res EXCEPT ![w] = Head(queue)]
            /\ queue' = Tail(queue)
            /\ popped' = [popped EXCEPT ![Head(queue)] = @ + 1]
       ELSE /\ res' = [res EXCEPT ![w] = NoOp]
            /\ UNCHANGED <<queue, popped>>
  /\ queue_mutex' = Free
  /\ wpc' = [wpc EXCEPT ![w] = "t_run"]
  /\ UNCHANGED <<jobs_left, bailout, finished, job_available_var, wait_var,
                 wait_mutex, threads, clientVars, accepted, executed, joiners,
                 crashed, quiet>>

\* A plausible slip in next_job: the branches test the queue and not
\* bailout, so that a queued job is still handed out after bailout.
NextJobGetQueueFirst(w) ==
  /\ UNCHANGED ran
  /\ wpc[w] = "nj_get"
  /\ IF Len(queue) > 0
       THEN /\ res' = [res EXCEPT ![w] = Head(queue)]
            /\ queue' = Tail(queue)
            /\ popped' = [popped EXCEPT ![Head(queue)] = @ + 1]
            /\ UNCHANGED jobs_left
       ELSE /\ res' = [res EXCEPT ![w] = NoOp]
            /\ jobs_left' = jobs_left + 1
            /\ UNCHANGED <<queue, popped>>
  /\ queue_mutex' = Free
  /\ wpc' = [wpc EXCEPT ![w] = "t_run"]
  /\ UNCHANGED <<bailout, finished, job_available_var, wait_var, wait_mutex,
                 threads, clientVars, accepted, executed, joiners, crashed,
                 quiet>>

\* next_job, lines 64-73: with bailout clear, res is the head of the queue,
\* which is popped; with bailout set, res is []{} and jobs_left is
\* incremented.  Returning releases queue_mutex.
NextJobGet(w) ==
  /\ UNCHANGED ran
  /\ wpc[w] = "nj_get"
  /\ IF ~bailout
       THEN /\ res' = [res EXCEPT ![w] = Head(queue)]
            /\ queue' = Tail(queue)
            /\ popped' = [popped EXCEPT ![Head(queue)] = @ + 1]
            /\ UNCHANGED jobs_left
       ELSE /\ res' = [res EXCEPT ![w] = NoOp]
            /\ jobs_left' = jobs_left + 1
            /\ UNCHANGED <<queue, popped>>
  /\ queue_mutex' = Free
  /\ wpc' = [wpc EXCEPT ![w] = "t_run"]
  /\ UNCHANGED <<bailout, finished, job_available_var, wait_var, wait_mutex,
                 threads, clientVars, accepted, executed, joiners, crashed,
                 quiet>>

\* The callables given to AddJob in a run: the first throws, the others
\* return.
Throws(j) == j = 1

\* AddJob, lines 119-121 and 129: the state of the future AddJob returned
\* for job j.  Running the packaged_task stores the callable's value, or the
\* exception it threw, in the future.
Future(j) ==
  IF executed[j] = 0 THEN "pending"
  ELSE IF Throws(j) THEN "exception" ELSE "value"

\* A plausible slip in AddJob: the queued lambda calls the callable itself,
\* without a packaged_task, and what the callable throws leaves Task and
\* ends the process.
TaskRunUncaught(w) ==
  /\ wpc[w] = "t_run"
  /\ IF res[w] # NoOp /\ Throws(res[w])
       THEN /\ crashed' = TRUE
            /\ wpc' = [wpc EXCEPT ![w] = "exited"]
            /\ UNCHANGED <<executed, ran, res>>
       ELSE /\ executed' = IF res[w] = NoOp THEN executed
                           ELSE [executed EXCEPT ![res[w]] = @ + 1]
            /\ ran' = [ran EXCEPT ![w] = IF res[w] = NoOp THEN "noop" ELSE "job"]
            /\ res' = [res EXCEPT ![w] = NoOp]
            /\ wpc' = [wpc EXCEPT ![w] = "t_dec"]
            /\ UNCHANGED crashed
  /\ UNCHANGED <<pool, clientVars, accepted, popped, joiners, quiet>>

\* Task, line 44: next_job()().  Running the lambda of AddJob (lines
\* 123-125) runs the packaged_task, which makes the job's future ready;
\* running []{} does nothing.  The function object returned by next_job is
\* destroyed at the end of the statement.
TaskRun(w) ==
  /\ wpc[w] = "t_run"
  /\ executed' = IF res[w] = NoOp THEN executed
                 ELSE [executed EXCEPT ![res[w]] = @ + 1]
  /\ ran' = [ran EXCEPT ![w] = IF res[w] = NoOp THEN "noop" ELSE "job"]
  /\ res' = [res EXCEPT ![w] = NoOp]
  /\ wpc' = [wpc EXCEPT ![w] = "t_dec"]
  /\ UNCHANGED <<pool, clientVars, accepted, popped, joiners, crashed, quiet>>

\* Task, line 46: --jobs_left.
TaskDec(w) ==
  /\ UNCHANGED ran
  /\ wpc[w] = "t_dec"
  /\ jobs_left' = jobs_left - 1
  /\ wpc' = [wpc EXCEPT ![w] = "t_notify"]
  /\ UNCHANGED <<queue, bailout, finished, job_available_var, wait_var,
                 wait_mutex, queue_mutex, threads, res, clientVars, history>>

\* Task, line 47: wait_var.notify_one() wakes one of the threads blocked on
\* wait_var, if there is one.
TaskNotify(w) ==
  /\ UNCHANGED ran
  /\ wpc[w] = "t_notify"
  /\ \/ /\ wait_var = {}
        /\ UNCHANGED wait_var
     \/ \E c \in wait_var : wait_var' = wait_var \ {c}
  /\ wpc' = [wpc EXCEPT ![w] = "t_while"]
  /\ UNCHANGED <<queue, jobs_left, bailout, finished, job_available_var,
                 wait_mutex, queue_mutex, threads, res, clientVars, history>>

\* Task, lines 41-49, with next_job, lines 55-74: one step of worker w.
Task(w) ==
  \/ TaskWhile(w)
  \/ NextJobLock(w)
  \/ NextJobPred(w)
  \/ NextJobBlock(w)
  \/ NextJobWake(w)
  \/ NextJobGet(w)
  \/ TaskRun(w)
  \/ TaskDec(w)
  \/ TaskNotify(w)

----------------------------------------------------------------------------
(* Caller threads: AddJob.                                                 *)

\* A client that is in none of the pool's functions.
Idle(c) == cpc[c] = "idle"

\* The pool object is alive: no thread has begun to destroy it.  A client
\* calls a member function only of a live pool.
Alive == \A d \in Clients : cop[d] # "~ThreadPool"

\* A client that may call a member function.
MayCall(c) == Idle(c) /\ Alive

\* A client is inside AddJob, between its emplace_back and its ++jobs_left.
InAddJob(c) == cpc[c] = "aj_inc"

\* A plausible slip in AddJob: the job is put at the front of the queue.
AddJobPushFront(c) ==
  /\ MayCall(c)
  /\ accepted < MaxJobs
  /\ queue_mutex = Free
  /\ queue_mutex' = C(c)
  /\ queue' = <<accepted + 1>> \o queue
  /\ accepted' = accepted + 1
  /\ cpc' = [cpc EXCEPT ![c] = "aj_inc"]
  /\ cop' = [cop EXCEPT ![c] = "AddJob"]
  /\ quiet' = [d \in Clients |-> FALSE]
  /\ UNCHANGED <<jobs_left, bailout, finished, job_available_var, wait_var,
                 wait_mutex, threads, workerVars, WaitForAll, x, popped,
                 executed, joiners, crashed>>

\* AddJob, lines 117-126: lock_guard guard( queue_mutex ), then the job (a
\* packaged_task with its future) is put at the back of the queue.
AddJobPush(c) ==
  /\ MayCall(c)
  /\ accepted < MaxJobs
  /\ queue_mutex = Free
  /\ queue_mutex' = C(c)
  /\ queue' = Append(queue, accepted + 1)
  /\ accepted' = accepted + 1
  /\ cpc' = [cpc EXCEPT ![c] = "aj_inc"]
  /\ cop' = [cop EXCEPT ![c] = "AddJob"]
  /\ quiet' = [d \in Clients |-> FALSE]
  /\ UNCHANGED <<jobs_left, bailout, finished, job_available_var, wait_var,
                 wait_mutex, threads, workerVars, WaitForAll, x, popped,
                 executed, joiners, crashed>>

\* A plausible slip in AddJob: job_available_var is not notified.
AddJobNotifyNoNotify(c) ==
  /\ cpc[c] = "aj_inc"
  /\ jobs_left' = jobs_left + 1
  /\ queue_mutex' = Free
  /\ cpc' = [cpc EXCEPT ![c] = "idle"]
  /\ UNCHANGED <<queue, bailout, finished, job_available_var, wait_var,
                 wait_mutex, threads, workerVars, cop, WaitForAll, x, history>>

\* AddJob, lines 127-130: ++jobs_left, job_available_var.notify_one() wakes
\* one of the threads blocked on job_available_var if there is one, and the
\* return releases queue_mutex.
AddJobNotify(c) ==
  /\ cpc[c] = "aj_inc"
  /\ jobs_left' = jobs_left + 1
  /\ \/ /\ job_available_var = {}
        /\ UNCHANGED job_available_var
     \/ \E w \in job_available_var :
          job_available_var' = job_available_var \ {w}
  /\ queue_mutex' = Free
  /\ cpc' = [cpc EXCEPT ![c] = "idle"]
  /\ UNCHANGED <<queue, bailout, finished, wait_var, wait_mutex, threads,
                 workerVars, cop, WaitForAll, x, history>>

\* AddJob, lines 115-130: one step of a call of AddJob by client c.
AddJob(c) ==
  \/ AddJobPush(c)
  \/ AddJobNotify(c)

----------------------------------------------------------------------------
(* Caller threads: WaitAll, called by a client or by JoinAll.              *)

\* Where a caller goes when WaitAll returns: back into JoinAll (line 152) or
\* back to the client.
AfterWaitAll(c) == IF cop[c] = "WaitAll" THEN "idle" ELSE "ja_bail"

\* A client calls WaitAll.
WaitAllCall(c) ==
  /\ MayCall(c)
  /\ cpc' = [cpc EXCEPT ![c] = "wa_if"]
  /\ cop' = [cop EXCEPT ![c] = "WaitAll"]
  /\ quiet' = [quiet EXCEPT ![c] = \A d \in Clients : ~InAddJob(d)]
  /\ UNCHANGED <<pool, workerVars, WaitForAll, x, accepted, popped, executed,
                 joiners, crashed>>

\* WaitAll, line 168: if( jobs_left > 0 ); WaitAll returns when it is not.
WaitAllIf(c) ==
  /\ cpc[c] = "wa_if"
  /\ cpc' = [cpc EXCEPT ![c] = IF jobs_left > 0 THEN "wa_lock"
                                ELSE AfterWaitAll(c)]
  /\ UNCHANGED <<pool, workerVars, cop, WaitForAll, x, history>>

\* WaitAll, line 169: std::unique_lock lk( wait_mutex ).
WaitAllLock(c) ==
  /\ cpc[c] = "wa_lock"
  /\ wait_mutex = Free
  /\ wait_mutex' = C(c)
  /\ cpc' = [cpc EXCEPT ![c] = "wa_pred"]
  /\ UNCHANGED <<queue, jobs_left, bailout, finished, job_available_var,
                 wait_var, queue_mutex, threads, workerVars, cop, WaitForAll,
                 x, history>>

\* A plausible slip in WaitAll's predicate: the last job is not waited for.
AllDoneButOne == jobs_left <= 1

\* WaitAll, line 171: the predicate of wait_var.wait.
AllDone == jobs_left = 0

\* WaitAll, lines 171-173: one evaluation of the predicate, under
\* wait_mutex.  When it is true the wait ends, lk.unlock() releases
\* wait_mutex and WaitAll returns; when it is false the thread goes on to
\* block.
WaitAllPred(c) ==
  /\ cpc[c] = "wa_pred"
  /\ IF AllDone
       THEN /\ wait_mutex' = Free
            /\ cpc' = [cpc EXCEPT ![c] = AfterWaitAll(c)]
       ELSE /\ cpc' = [cpc EXCEPT ![c] = "wa_block"]
            /\ UNCHANGED wait_mutex
  /\ UNCHANGED <<queue, jobs_left, bailout, finished, job_available_var,
                 wait_var, queue_mutex, threads, workerVars, cop, WaitForAll,
                 x, history>>

\* WaitAll, line 171: wait(lk) releases wait_mutex and blocks the thread on
\* wait_var, atomically.
WaitAllBlock(c) ==
  /\ cpc[c] = "wa_block"
  /\ wait_mutex' = Free
  /\ wait_var' = wait_var \cup {c}
  /\ cpc' = [cpc EXCEPT ![c] = "wa_wait"]
  /\ UNCHANGED <<queue, jobs_left, bailout, finished, job_available_var,
                 queue_mutex, threads, workerVars, cop, WaitForAll, x,
                 history>>

\* WaitAll, line 171: a notified thread takes wait_mutex again and evaluates
\* the predicate again.
WaitAllWake(c) ==
  /\ cpc[c] = "wa_wait"
  /\ c \notin wait_var
  /\ wait_mutex = Free
  /\ wait_mutex' = C(c)
  /\ cpc' = [cpc EXCEPT ![c] = "wa_pred"]
  /\ UNCHANGED <<queue, jobs_left, bailout, finished, job_available_var,
                 wait_var, queue_mutex, threads, workerVars, cop, WaitForAll,
                 x, history>>

\* std::condition_variable::wait may return without a notification.
WaitAllSpuriousWake(c) ==
  /\ cpc[c] = "wa_wait"
  /\ c \in wait_var
  /\ wait_var' = wait_var \ {c}
  /\ UNCHANGED <<queue, jobs_left, bailout, finished, job_available_var,
                 wait_mutex, queue_mutex, threads, workerVars, clientVars,
                 history>>

\* WaitAll, lines 167-175: one step of caller c inside WaitAll.
WaitAll(c) ==
  \/ WaitAllIf(c)
  \/ WaitAllLock(c)
  \/ WaitAllPred(c)
  \/ WaitAllBlock(c)
  \/ WaitAllWake(c)

----------------------------------------------------------------------------
(* Caller threads: JoinAll and the destructor.                             *)

\* A plausible slip in JoinAll: WaitForAll is ignored, the pool is never
\* drained.
JoinAllIfNoDrain(c) ==
  /\ cpc[c] = "ja_if"
  /\ cpc' = [cpc EXCEPT ![c] = IF finished THEN "idle" ELSE "ja_bail"]
  /\ UNCHANGED <<pool, workerVars, cop, WaitForAll, x, history>>

\* A plausible slip in JoinAll: the test of finished is missing.
JoinAllIfNoTest(c) ==
  /\ cpc[c] = "ja_if"
  /\ cpc' = [cpc EXCEPT ![c] = IF WaitForAll[c] THEN "wa_if" ELSE "ja_bail"]
  /\ UNCHANGED <<pool, workerVars, cop, WaitForAll, x, history>>

\* A client calls JoinAll( drain ).
JoinAllCall(c, drain) ==
  /\ MayCall(c)
  /\ cpc' = [cpc EXCEPT ![c] = "ja_if"]
  /\ cop' = [cop EXCEPT ![c] = "JoinAll"]
  /\ WaitForAll' = [WaitForAll EXCEPT ![c] = drain]
  /\ quiet' = [quiet EXCEPT ![c] = \A d \in Clients : ~InAddJob(d)]
  /\ UNCHANGED <<pool, workerVars, x, accepted, popped, executed, joiners,
                 crashed>>

\* ~ThreadPool, lines 91-93: the destructor calls JoinAll(), WaitForAll
\* taking its default, true.
Destructor(c) ==
  /\ MayCall(c)
  /\ cpc' = [cpc EXCEPT ![c] = "ja_if"]
  /\ cop' = [cop EXCEPT ![c] = "~ThreadPool"]
  /\ WaitForAll' = [WaitForAll EXCEPT ![c] = TRUE]
  /\ quiet' = [quiet EXCEPT ![c] = \A d \in Clients : ~InAddJob(d)]
  /\ UNCHANGED <<pool, workerVars, x, accepted, popped, executed, joiners,
                 crashed>>

\* JoinAll, lines 145-148: if( !finished ), and then if( WaitForAll )
\* WaitAll().  With finished set JoinAll returns.
JoinAllIf(c) ==
  /\ cpc[c] = "ja_if"
  /\ cpc' = [cpc EXCEPT ![c] = IF finished THEN "idle"
                                ELSE IF WaitForAll[c] THEN "wa_if"
                                ELSE "ja_bail"]
  /\ UNCHANGED <<pool, workerVars, cop, WaitForAll, x, history>>

\* JoinAll, line 152: bailout = true.  No lock is held.
JoinAllBailout(c) ==
  /\ cpc[c] = "ja_bail"
  /\ bailout' = TRUE
  /\ cpc' = [cpc EXCEPT ![c] = "ja_notify"]
  /\ UNCHANGED <<queue, jobs_left, finished, job_available_var, wait_var,
                 wait_mutex, queue_mutex, threads, workerVars, cop,
                 WaitForAll, x, history>>

\* JoinAll, line 153: job_available_var.notify_all() wakes every thread
\* that is blocked on job_available_var.  The loop over threads begins.
JoinAllNotifyAll(c) ==
  /\ cpc[c] = "ja_notify"
  /\ job_available_var' = {}
  /\ x' = [x EXCEPT ![c] = 1]
  /\ cpc' = [cpc EXCEPT ![c] = "ja_for"]
  /\ UNCHANGED <<queue, jobs_left, bailout, finished, wait_var, wait_mutex,
                 queue_mutex, threads, workerVars, cop, WaitForAll, history>>

\* A plausible slip in JoinAll: the threads are not joined.
JoinAllForNoJoin(c) ==
  /\ cpc[c] = "ja_for"
  /\ cpc' = [cpc EXCEPT ![c] = "ja_fin"]
  /\ x' = [x EXCEPT ![c] = 1]
  /\ UNCHANGED <<pool, workerVars, cop, WaitForAll, accepted, popped,
                 executed, joiners, crashed, quiet>>

\* JoinAll, lines 155-157: for( auto &x : threads ) if( x.joinable() ), on
\* which the caller calls x.join().  After the last thread comes line 158.
JoinAllFor(c) ==
  /\ cpc[c] = "ja_for"
  /\ IF x[c] > threadcount
       THEN /\ cpc' = [cpc EXCEPT ![c] = "ja_fin"]
            /\ x' = [x EXCEPT ![c] = 1]
            /\ UNCHANGED joiners
       ELSE IF threads[x[c]]
         THEN /\ cpc' = [cpc EXCEPT ![c] = "ja_join"]
              /\ joiners' = [joiners EXCEPT ![x[c]] = @ \cup {c}]
              /\ UNCHANGED x
         ELSE /\ x' = [x EXCEPT ![c] = @ + 1]
              /\ UNCHANGED <<cpc, joiners>>
  /\ UNCHANGED <<pool, workerVars, cop, WaitForAll, accepted, popped,
                 executed, crashed, quiet>>

\* JoinAll, line 157: x.join() blocks until the thread has ended, and the
\* thread is no longer joinable.  join() on a thread that another caller
\* has joined in the meantime is undefined: the build either carries on or
\* ends the process (std::system_error out of join, uncaught).
JoinAllJoin(c) ==
  /\ cpc[c] = "ja_join"
  /\ wpc[x[c]] = "exited"
  /\ \/ /\ threads' = [threads EXCEPT ![x[c]] = FALSE]
        /\ x' = [x EXCEPT ![c] = @ + 1]
        /\ cpc' = [cpc EXCEPT ![c] = "ja_for"]
        /\ UNCHANGED crashed
     \/ /\ ~threads[x[c]]
        /\ crashed' = TRUE
        /\ UNCHANGED <<threads, x, cpc>>
  /\ UNCHANGED <<queue, jobs_left, bailout, finished, job_available_var,
                 wait_var, wait_mutex, queue_mutex, workerVars, cop,
                 WaitForAll, accepted, popped, executed, joiners, quiet>>

\* A plausible slip in JoinAll: bailout is cleared when finished is set.
JoinAllFinishedReset(c) ==
  /\ cpc[c] = "ja_fin"
  /\ finished' = TRUE
  /\ bailout' = FALSE
  /\ cpc' = [cpc EXCEPT ![c] = "idle"]
  /\ UNCHANGED <<queue, jobs_left, job_available_var, wait_var,
                 wait_mutex, queue_mutex, threads, workerVars, cop,
                 WaitForAll, x, history>>

\* JoinAll, lines 158-160: finished = true, and JoinAll returns.
JoinAllFinished(c) ==
  /\ cpc[c] = "ja_fin"
  /\ finished' = TRUE
  /\ cpc' = [cpc EXCEPT ![c] = "idle"]
  /\ UNCHANGED <<queue, jobs_left, bailout, job_available_var, wait_var,
                 wait_mutex, queue_mutex, threads, workerVars, cop,
                 WaitForAll, x, history>>

\* JoinAll, lines 142-160: one step of caller c inside JoinAll; its steps
\* inside WaitAll (line 147) are those of WaitAll(c).
JoinAll(c) ==
  \/ JoinAllIf(c)
  \/ JoinAllBailout(c)
  \/ JoinAllNotifyAll(c)
  \/ JoinAllFor(c)
  \/ JoinAllJoin(c)
  \/ JoinAllFinished(c)

----------------------------------------------------------------------------
\* A client begins a call.
Call(c) ==
  \/ WaitAllCall(c)
  \/ \E drain \in BOOLEAN : JoinAllCall(c, drain)
  \/ Destructor(c)

\* A step inside a call that client c has begun; AddJob's first step is the
\* call itself.
ClientStep(c) ==
  \/ AddJob(c)
  \/ WaitAll(c)
  \/ JoinAll(c)

\* A wait on a condition variable returns without a notification.
SpuriousWake ==
  \/ \E w \in Workers : NextJobSpuriousWake(w)
  \/ \E c \in Clients : WaitAllSpuriousWake(c)

\* Nothing runs on a pool whose constructor threw, nor once the process
\* has been terminated.  threadcount is never assigned after construction.
Next ==
  /\ Constructed
  /\ ~crashed
  /\ UNCHANGED threadcount
  /\ \/ \E w \in Workers : Task(w)
     \/ \E c \in Clients : ClientStep(c)
     \/ \E c \in Clients : Call(c)
     \/ SpuriousWake

Spec == Init /\ [][Next]_vars

\* The scheduler runs every thread that can take a step: a worker, and a
\* client inside a call.  Nothing makes a client begin another call, and
\* nothing makes a wait return without a notification.
Fairness ==
  /\ \A w \in 1..NumWorkers :
       WF_vars(w \in Workers /\ ~crashed /\ Task(w) /\ UNCHANGED threadcount)
  /\ \A c \in Clients :
       WF_vars(~crashed /\ ClientStep(c) /\ ~Idle(c) /\ UNCHANGED threadcount)

FairSpec == Spec /\ Fairness

\* The steps of a pool on which no shutdown is requested: those of Next
\* without the calls of JoinAll and of the destructor.
Running ==
  /\ Constructed
  /\ ~crashed
  /\ UNCHANGED threadcount
  /\ \/ \E w \in Workers : Task(w)
     \/ \E c \in Clients : AddJob(c)
     \/ \E c \in Clients : WaitAll(c)
     \/ \E c \in Clients : WaitAllCall(c)
     \/ SpuriousWake

RunningSpec == Init /\ [][Running]_vars /\ Fairness

----------------------------------------------------------------------------
(* What the claims speak of.                                               *)

\* The positions of a caller inside WaitAll.
WaitPcs == {"wa_if", "wa_lock", "wa_pred", "wa_block", "wa_wait"}

\* Client c's last call was op, and it has returned.
Returned(c, op) == Idle(c) /\ cop[c] = op

\* Job j's packaged_task has run: its future is ready.
Ready(j) == executed[j] >= 1

\* Job j is in the queue.
Queued(j) == \E i \in 1..Len(queue) : queue[i] = j

\* A worker has dequeued job j and not yet run it.
Held(j) == \E w \in Workers : wpc[w] = "t_run" /\ res[w] = j

----------------------------------------------------------------------------
\* C1: when WaitAll has returned to a client that called it after the last
\* AddJob had returned, and bailout was never set, jobs_left is 0, the queue
\* is empty and the future of every accepted job is ready.
C1_WaitAllReturnsWhenAllDone ==
  \A c \in Clients :
    (Returned(c, "WaitAll") /\ quiet[c] /\ ~bailout)
      => /\ jobs_left = 0
         /\ queue = <<>>
         /\ \A j \in 1..accepted : Ready(j)

\* C1's case: every job of the run was submitted, after which a client
\* called WaitAll, which has returned.
C1_Witness ==
  \E c \in Clients :
    Returned(c, "WaitAll") /\ quiet[c] /\ ~bailout /\ accepted = MaxJobs

\* A worker that has yet to call wait_var.notify_one() for a job it took.
NotifyToCome == \E w \in Workers : wpc[w] \in {"t_run", "t_dec", "t_notify"}

\* C2: no wakeup is missed by a single waiter.  A caller of WaitAll that
\* has found jobs_left above 0 and is about to block on wait_var, no other
\* caller being inside WaitAll, no AddJob under way and bailout clear, still
\* has a notification to come: jobs_left is above 0 or a worker has yet to
\* notify.  (Otherwise the decrement to 0 and its notification both fell
\* between the check and the blocking, and nothing will wake the caller.)
C2_NoMissedWakeup ==
  \A c \in Clients :
    ( /\ cpc[c] = "wa_block"
      /\ \A d \in Clients \ {c} : cpc[d] \notin WaitPcs /\ ~InAddJob(d)
      /\ ~bailout )
      => (jobs_left > 0 \/ NotifyToCome)

\* C3: when jobs_left has reached 0 and two or more callers of WaitAll are
\* blocked on wait_var, the workers' last notification (no other worker has
\* one to come, no AddJob is under way, bailout is clear) leaves none of
\* them blocked.
C3_EveryWaiterWoken ==
  [][\A w \in Workers :
       ( /\ wpc[w] = "t_notify" /\ wpc'[w] = "t_while"
         /\ jobs_left = 0
         /\ Cardinality(wait_var) >= 2
         /\ \A c \in wait_var : cop[c] = "WaitAll"
         /\ \A v \in Workers \ {w} : wpc[v] \notin {"t_run", "t_dec", "t_notify"}
         /\ \A c \in Clients : ~InAddJob(c)
         /\ ~bailout )
         => wait_var' = {}]_vars

\* A caller of JoinAll that has yet to call job_available_var.notify_all().
NotifyAllToCome ==
  \E c \in Clients :
    \/ cpc[c] \in {"ja_if", "ja_bail", "ja_notify"}
    \/ cop[c] # "WaitAll" /\ cpc[c] \in WaitPcs

\* C4: no worker stays blocked on job_available_var after bailout was set.
\* While bailout is set and a worker is blocked there, a caller of JoinAll
\* has yet to notify all, or an AddJob under way has yet to notify one.
\* (Otherwise nothing wakes the worker, the worker does not leave its loop,
\* and the join() of the caller of JoinAll does not return.)
C4_NoWorkerLeftBlocked ==
  \A w \in Workers :
    (bailout /\ w \in job_available_var)
      => (NotifyAllToCome \/ \E c \in Clients : InAddJob(c))

\* C5: no thread of the pool has join() called on it by two callers of
\* JoinAll, and no call of JoinAll ends the process.
C5_NoDoubleJoin ==
  /\ \A w \in Workers : Cardinality(joiners[w]) <= 1
  /\ ~crashed

\* The pool's state and the state of its worker threads.
poolState == <<pool, workerVars>>

\* C6: a call of JoinAll (by a client or by the destructor, with either
\* value of WaitForAll) that finds finished set takes one step, which
\* returns and leaves the queue, jobs_left, bailout, finished, the
\* condition variables, the mutexes and the threads as they are.
C6_JoinAllAfterFinishedIsNoOp ==
  [][\A c \in Clients :
       (cpc[c] = "ja_if" /\ finished /\ cpc'[c] # "ja_if")
         => (cpc'[c] = "idle" /\ poolState' = poolState)]_vars

\* C6's case: a draining call of JoinAll made after finished was set, with
\* jobs_left above 0, so that a call that did wait for jobs_left = 0 would
\* block.
C6_Witness ==
  \E c \in Clients :
    cpc[c] = "ja_if" /\ finished /\ WaitForAll[c] /\ jobs_left > 0

\* C7: once JoinAll(false) has returned with finished set, from a pool with
\* a thread, a call of AddJob puts nothing in the queue and does not count a
\* job as accepted.
C7_AddJobRejectedAfterShutdown ==
  [][\A c \in Clients :
       ( /\ threadcount >= 1
         /\ finished
         /\ \E d \in Clients : Returned(d, "JoinAll") /\ ~WaitForAll[d]
         /\ Idle(c)
         /\ cpc'[c] = "aj_inc" )
         => (queue' = queue /\ accepted' = accepted)]_vars

\* C8: when a caller of JoinAll(true) (or the destructor) sets bailout, and
\* no AddJob ran since it called JoinAll, the queue is empty, no worker
\* holds a job it has yet to run, and the future of every accepted job is
\* ready.
C8_DrainBeforeBailout ==
  [][\A c \in Clients :
       (cpc[c] = "ja_bail" /\ cpc'[c] = "ja_notify" /\ WaitForAll[c]
          /\ quiet[c])
         => /\ queue = <<>>
            /\ \A j \in 1..accepted : Ready(j) /\ ~Held(j)]_vars

\* C8's case: a draining JoinAll, called after the run's jobs were
\* submitted, has just set bailout.
C8_Witness ==
  \E c \in Clients :
    /\ cpc[c] = "ja_notify"
    /\ WaitForAll[c]
    /\ quiet[c]
    /\ accepted = MaxJobs

\* C9: when a call of JoinAll on a pool with a thread returns, and no AddJob
\* ran since JoinAll was called, the queue is empty and every worker thread
\* has ended.
C9_QueueEmptyAfterJoinAll ==
  [][\A c \in Clients :
       ( /\ threadcount >= 1
         /\ cpc[c] \in {"ja_if", "ja_fin"} /\ cpc'[c] = "idle" /\ quiet[c] )
         => (queue' = <<>> /\ \A w \in Workers : wpc'[w] = "exited")]_vars

\* C10: a job is taken off the queue at most once and run at most once; a
\* job that was accepted and is neither in the queue nor held by the worker
\* that dequeued it has run exactly once; a job in the queue or not yet
\* accepted has not run.
C10_AtMostOnce ==
  \A j \in Jobs :
    /\ popped[j] <= 1
    /\ executed[j] <= 1
    /\ (j <= accepted /\ ~Queued(j) /\ ~Held(j)) => executed[j] = 1
    /\ (j > accepted \/ Queued(j)) => (executed[j] = 0 /\ popped[j] = 0)

\* C10's case: with all workers running, every job of the run has been
\* dequeued and run, and a worker has moreover been handed the no-op of a
\* shutdown.
C10_Witness ==
  /\ accepted = MaxJobs
  /\ \A j \in Jobs : executed[j] = 1
  /\ bailout
  /\ \E w \in Workers : wpc[w] = "t_dec"

----------------------------------------------------------------------------
\* The number of threads that hold a job or a []{} that next_job returned
\* and have not yet decremented jobs_left for it.
Undecremented == Cardinality({w \in Workers : wpc[w] \in {"t_run", "t_dec"}})

\* The number of calls of AddJob that have put their job in the queue and
\* not yet incremented jobs_left.
Uncounted == Cardinality({c \in Clients : InAddJob(c)})

\* The number of threads that are running a job of AddJob.
Executing == Cardinality({w \in Workers : wpc[w] = "t_run" /\ res[w] # NoOp})

\* Thread w ends in this step.
Exits(w) == wpc[w] # "exited" /\ wpc'[w] = "exited"

\* Thread w returns from next_job in this step.
NextJobReturns(w) == wpc[w] = "nj_get" /\ wpc'[w] # "nj_get"

\* The pool is stopped and a call of JoinAll( false ) has returned.
Abandoned ==
  /\ threadcount >= 1
  /\ finished
  /\ \E c \in Clients : Returned(c, "JoinAll") /\ ~WaitForAll[c]

\* C11: on a pool with a thread, on which no shutdown is requested and
\* whose threads and callers in a call are scheduled fairly, every job AddJob
\* has accepted is in the end run, which makes its future ready: the
\* notify_one of AddJob reaches a thread that waits for a job.
C11_AcceptedJobIsRun ==
  \A j \in Jobs : (j <= accepted /\ threadcount >= 1) ~> Ready(j)

\* C11's case: every job of the run was accepted and has been run, and
\* every thread of the pool is blocked on job_available_var again.
C11_Witness ==
  /\ threadcount = NumWorkers
  /\ accepted = MaxJobs
  /\ \A j \in Jobs : Ready(j)
  /\ \A w \in Workers : wpc[w] = "nj_wait" /\ w \in job_available_var

\* C12: jobs leave the queue in the order in which AddJob accepted them: when
\* a job has been dequeued, every job accepted before it has been dequeued;
\* and in a pool of one thread every job accepted before it has been run.
C12_FifoDispatch ==
  \A i, j \in Jobs :
    (i < j /\ popped[j] >= 1)
      => /\ popped[i] >= 1
         /\ threadcount = 1 => Ready(i)

\* C12's case: a pool of one thread has dequeued the second job and not yet
\* run it.
C12_Witness ==
  /\ threadcount = 1
  /\ MaxJobs >= 2
  /\ Held(2)

\* C13: the step in which a thread runs a job whose callable throws stores
\* the exception in the job's future, ends nothing, and takes the thread to
\* its --jobs_left; whatever a thread ran, its next steps decrement
\* jobs_left by one, notify wait_var and return to the head of the loop.
C13_JobFailureIsLocal ==
  [][\A w \in Workers :
       /\ \A j \in Jobs :
            (wpc[w] = "t_run" /\ res[w] = j /\ Throws(j) /\ wpc'[w] # "t_run")
              => /\ Future(j)' = "exception"
                 /\ wpc'[w] = "t_dec"
                 /\ ~crashed'
       /\ (wpc[w] = "t_dec" /\ wpc'[w] # "t_dec")
            => (wpc'[w] = "t_notify" /\ jobs_left' = jobs_left - 1)
       /\ (wpc[w] = "t_notify" /\ wpc'[w] # "t_notify")
            => /\ wpc'[w] = "t_while"
               /\ wait_var # {} => Cardinality(wait_var') < Cardinality(wait_var)
     ]_vars

\* C13's case: the one thread of a pool has run the job that throws, whose
\* future holds the exception, and has gone back to the queue for the
\* next job.
C13_Witness ==
  /\ threadcount = 1
  /\ Future(1) = "exception"
  /\ Held(2)
  /\ ~crashed

\* C14: the constructor fails for a threadcount of 0 or less, and for a
\* positive threadcount it starts that many threads, which Size returns.
C14_ConstructionValidated ==
  /\ threadcount <= 0 => ~Constructed
  /\ threadcount > 0
       => (Constructed /\ Cardinality(Workers) = threadcount
                       /\ Size = threadcount)

\* C15, as stated: jobs_left is never negative and is the length of the
\* queue plus the number of threads that hold a job or a []{} and have not
\* yet decremented jobs_left.
C15_CounterIsQueuePlusHeld ==
  /\ jobs_left >= 0
  /\ jobs_left = Len(queue) + Undecremented

\* C15, amended: jobs_left is never negative and is the length of the queue
\* plus the number of threads that hold a job or a []{} and have not yet
\* decremented jobs_left, less the number of calls of AddJob that are
\* between their emplace_back and their ++jobs_left.
C15_CounterBalanced ==
  /\ jobs_left >= 0
  /\ jobs_left = Len(queue) + Undecremented - Uncounted

\* C15's case: a call of AddJob is between its emplace_back and its
\* ++jobs_left while a thread holds the []{} of a shutdown.
C15_Witness ==
  /\ \E c \in Clients : InAddJob(c)
  /\ \E w \in Workers : wpc[w] = "t_run" /\ res[w] = NoOp
  /\ bailout

\* C16: finished is never true while bailout is false, neither flag goes
\* back to false, and the pair (bailout, finished) changes only from (false,
\* false) to (true, false) and from (true, false) to (true, true).
C16_LifecycleMonotonic ==
  /\ [](finished => bailout)
  /\ [][/\ bailout => bailout'
        /\ finished => finished'
        /\ <<bailout, finished>>' # <<bailout, finished>>
             => \/ <<bailout, finished>> = <<FALSE, FALSE>>
                   /\ <<bailout, finished>>' = <<TRUE, FALSE>>
                \/ <<bailout, finished>> = <<TRUE, FALSE>>
                   /\ <<bailout, finished>>' = <<TRUE, TRUE>>]_vars

\* C16's case: the pool is stopped, and a client has since begun another
\* shutdown.
C16_Witness ==
  /\ finished
  /\ bailout
  /\ \E c \in Clients : cop[c] \in {"JoinAll", "~ThreadPool"} /\ ~Idle(c)

\* C17, as stated: a thread ends only when the last thing it ran was the
\* []{} that next_job returned on bailout.
C17_ExitOnlyAfterNoOp ==
  [][\A w \in Workers : Exits(w) => ran[w] = "noop"]_vars

\* C17, amended: a thread ends only at the head of its loop, on reading
\* bailout set, whatever it ran last.
C17_ExitOnlyOnBailoutAtLoopHead ==
  [][\A w \in Workers : Exits(w) => (wpc[w] = "t_while" /\ bailout)]_vars

\* C17's case: a thread has ended without next_job ever having returned a
\* []{}: no job was accepted and jobs_left was never incremented.
C17_Witness ==
  /\ \E w \in Workers : wpc[w] = "exited"
  /\ \A w \in Workers : wpc[w] \in {"t_while", "exited"}
  /\ accepted = 0
  /\ bailout

\* C18: next_job returns only when the queue is not empty or bailout is set;
\* returning with bailout set it leaves the queue as it is, returns []{} and
\* increments jobs_left by one; returning with bailout clear it removes the
\* head of the queue, returns it, and leaves jobs_left as it is.
C18_NextJobEffect ==
  [][\A w \in Workers :
       NextJobReturns(w)
         => /\ Len(queue) > 0 \/ bailout
            /\ wpc'[w] = "t_run"
            /\ IF bailout
                 THEN /\ queue' = queue
                      /\ res'[w] = NoOp
                      /\ jobs_left' = jobs_left + 1
                 ELSE /\ queue' = Tail(queue)
                      /\ res'[w] = Head(queue)
                      /\ jobs_left' = jobs_left]_vars

\* C18's case: next_job has returned []{} to a thread while a job is in the
\* queue.
C18_Witness ==
  /\ \E w \in Workers : wpc[w] = "t_run" /\ res[w] = NoOp
  /\ Len(queue) > 0

\* C19: once JoinAll( false ) has returned from a stopped pool, and while no
\* AddJob is under way, no job is run and no future becomes ready, no thread
\* holds a job, and jobs_left stays where it is, at the number of jobs in the
\* queue.
C19_AbandonedJobsStay ==
  [][(Abandoned /\ Uncounted = 0)
       => /\ executed' = executed
          /\ \A j \in Jobs : ~Held(j)
          /\ jobs_left' = jobs_left
          /\ jobs_left' = Len(queue')]_vars

\* C20: when finished is set every thread has ended and none holds a job;
\* and the number of threads running a job is never more than Size.
C20_StoppedMeansNoWorker ==
  /\ finished => /\ \A w \in Workers : wpc[w] = "exited"
                 /\ \A j \in Jobs : ~Held(j)
  /\ Constructed => Executing <= Size

\* C20's case: a pool with all its threads is stopped with a job left in the
\* queue, which none of them will run.
C20_Witness ==
  /\ finished
  /\ threadcount = NumWorkers
  /\ Len(queue) > 0

====
